---- MODULE Spec2Model ----
(***************************************************************************)
(* DealLens: the scoring engine (WinProbabilityAgent), the strategy        *)
(* synthesizer (StrategySynthesizerAgent) and the pipeline orchestrator    *)
(* (DealLensOrchestrator, and the entry point in main.py).                 *)
(*                                                                         *)
(* Conventions                                                             *)
(*  - Python floats are modelled as exact rationals <<n, d>> in lowest     *)
(*    terms with d > 0.                                                    *)
(*  - The Korean tier literals of the source are written in ASCII:         *)
(*    "high" / "medium" / "low" stand for the source's sang / jung / ha    *)
(*    (readiness, severity, priority and difficulty all use the same three *)
(*    literals in the source).  Risk categories: "contradiction",          *)
(*    "ambiguity", "legal", "security", "licensing"; "other" is a category *)
(*    that is not a key of probability_scores.                             *)
(*  - A dataclass instance that went through dataclasses.asdict is a dict: *)
(*    records carry is_dict = TRUE for it, and attribute access on such a  *)
(*    value raises AttributeError in the source.                           *)
(***************************************************************************)
EXTENDS Integers, Sequences, FiniteSets, TLC

VARIABLES
    pc,                  \* position of the current call / run
    entry,               \* how the run was started: "main", "direct", "scoring",
                         \* "synthesis"
    rfp_content,         \* the RFP text, a sequence of characters
    competitors,         \* the competitor argument: <<>> (None) or <<list of names>>
    validation,          \* the dict returned by validate_inputs, or None
    rfp_analysis,        \* stage 1 output (RFPAnalysisResult), or None
    internal_match,      \* stage 2 output (InternalMatchResult), or None
    competitor_analysis, \* stage 3 output (CompetitiveAnalysis), or None
    win_probability,     \* stage 4 output (WinProbabilityResult), or None
    strategy_synthesis,  \* stage 5 output (StrategySynthesis), or None
    result,              \* the AnalysisPipelineResult returned, or None
    stages,              \* the stages executed so far in this run, in order
    errors,              \* the st.error messages surfaced so far in this run
    report,              \* the last text returned by export_analysis_report, or None
    run_state,           \* several runs on one orchestrator: each run's position,
                         \* arguments and the object it returned (SpecRuns;
                         \* empty where a single run or call is followed)
    heap                 \* the mutable objects (lists, dataclass instances) of the
                         \* orchestrator and of those runs, with the objects
                         \* they refer to (SpecRuns; empty elsewhere)

pipeline_vars == <<pc, entry, rfp_content, competitors, validation, rfp_analysis,
                   internal_match, competitor_analysis, win_probability,
                   strategy_synthesis, result, stages, errors, report>>

vars == <<pipeline_vars, run_state, heap>>

(***************************************************************************)
(* Bounds of the model.                                                    *)
(***************************************************************************)
MaxCriteria == 3
MaxRisks == 2
MaxPad == 1
MaxRuns == 2
MaxGaps == 2

(***************************************************************************)
(* Exact rational arithmetic standing for the float arithmetic.            *)
(***************************************************************************)
Abs(x) == IF x < 0 THEN -x ELSE x

RECURSIVE GCD(_, _)
GCD(a, b) == IF b = 0 THEN a ELSE GCD(b, a % b)

R(n, d) == LET g == GCD(Abs(n), d) IN <<n \div g, d \div g>>

RInt(n) == <<n, 1>>
RAdd(a, b) == R(a[1] * b[2] + b[1] * a[2], a[2] * b[2])
RSub(a, b) == R(a[1] * b[2] - b[1] * a[2], a[2] * b[2])
RMul(a, b) == R(a[1] * b[1], a[2] * b[2])
RDivInt(a, k) == R(a[1], a[2] * k)
RLe(a, b) == a[1] * b[2] <= b[1] * a[2]
RLt(a, b) == a[1] * b[2] < b[1] * a[2]
RMin(a, b) == IF RLe(a, b) THEN a ELSE b
RMax(a, b) == IF RLe(a, b) THEN b ELSE a
RAbs(a) == <<Abs(a[1]), a[2]>>

\* a sequence given as a function, as an explicit tuple
AsSeq(f) == SubSeq(f, 1, Len(f))

\* sum(...) / "total += x": a running total from 0, left to right
RECURSIVE RSumAcc(_, _, _)
RSumAcc(s, i, acc) ==
    IF i > Len(s) THEN acc
    ELSE RSumAcc(s, i + 1, R(acc[1] * s[i][2] + s[i][1] * acc[2], acc[2] * s[i][2]))

RSum(s) == RSumAcc(AsSeq(s), 1, <<0, 1>>)

Range(s) == {s[i] : i \in 1..Len(s)}

Prefix(s, n) == SubSeq(s, 1, IF Len(s) < n THEN Len(s) ELSE n)

AnyDict(s) == \E i \in 1..Len(s) : s[i].is_dict
AnyObject(s) == \E i \in 1..Len(s) : ~s[i].is_dict

(***************************************************************************)
(* Scoring engine: WinProbabilityAgent (win_probability_agent.py).         *)
(*   criterion      [item, weight]                    (a dict)             *)
(*   risk flag      [risk_type, severity]             (a dict)             *)
(*   internal match [overall_readiness, confidence_score, skill_gaps]      *)
(*   competitor analysis [competitor_profiles, our_advantages, ...]        *)
(*   profile        [is_dict, company_name, strengths, weaknesses] where   *)
(*                  strengths / weaknesses hold the lengths of the lists   *)
(***************************************************************************)
readiness_scores(readiness) ==
    CASE readiness = "high" -> R(9, 10)
      [] readiness = "medium" -> R(6, 10)
      [] readiness = "low" -> R(3, 10)
      [] OTHER -> R(3, 10)

calculate_our_score(criteria, im) ==
    LET base_score == readiness_scores(im.overall_readiness)
        adjusted_score == RMul(base_score,
                               RAdd(R(1, 2), RMul(im.confidence_score, R(1, 2))))
    IN  RMin(RInt(1), RMax(RInt(0), adjusted_score))

profile_score(profile) ==
    LET strength_score == RMul(RInt(profile.strengths), R(1, 10))
        weakness_penalty == RMul(RInt(profile.weaknesses), R(5, 100))
    IN  RMin(RInt(1), RMax(RInt(0),
             RSub(RAdd(R(1, 2), strength_score), weakness_penalty)))

calculate_competitor_score(criteria, ca) ==
    LET profiles == ca.competitor_profiles
    IN  IF profiles = <<>> THEN R(1, 2)
        ELSE RDivInt(RSum([i \in 1..Len(profiles) |-> profile_score(profiles[i])]),
                     Len(profiles))

\* profile.strengths on a profile that is a dict raises AttributeError
competitor_score_raises(ca) ==
    \E i \in 1..Len(ca.competitor_profiles) : ca.competitor_profiles[i].is_dict

calculate_evaluation_scores_own_by_weight(evaluation_criteria, im, ca) ==
    AsSeq([i \in 1..Len(evaluation_criteria) |->
        LET criteria == evaluation_criteria[i]
            weight == criteria.weight
            our_score == RMul(calculate_our_score(criteria, im), weight)
            competitor_avg_score == calculate_competitor_score(criteria, ca)
            score_difference == RSub(our_score, competitor_avg_score)
        IN  [criteria |-> criteria.item,
             weight |-> weight,
             our_score |-> our_score,
             competitor_avg_score |-> competitor_avg_score,
             score_difference |-> score_difference,
             weighted_score |-> RMul(score_difference, weight)]])

calculate_evaluation_scores(evaluation_criteria, im, ca) ==
    AsSeq([i \in 1..Len(evaluation_criteria) |->
        LET criteria == evaluation_criteria[i]
            our_score == calculate_our_score(criteria, im)
            competitor_avg_score == calculate_competitor_score(criteria, ca)
            score_difference == RSub(our_score, competitor_avg_score)
            weight == criteria.weight
        IN  [criteria |-> criteria.item,
             weight |-> weight,
             our_score |-> our_score,
             competitor_avg_score |-> competitor_avg_score,
             score_difference |-> score_difference,
             weighted_score |-> RMul(score_difference, weight)]])

impact_scores(severity) ==
    CASE severity = "high" -> R(8, 10)
      [] severity = "medium" -> R(5, 10)
      [] severity = "low" -> R(2, 10)
      [] OTHER -> R(5, 10)

probability_scores(risk_type) ==
    CASE risk_type = "contradiction" -> R(3, 10)
      [] risk_type = "ambiguity" -> R(6, 10)
      [] risk_type = "legal" -> R(2, 10)
      [] risk_type = "security" -> R(4, 10)
      [] risk_type = "licensing" -> R(3, 10)
      [] OTHER -> R(4, 10)

analyze_risk_factors_reversed(risk_flags) ==
    AsSeq([i \in 1..Len(risk_flags) |->
        LET risk == risk_flags[Len(risk_flags) + 1 - i]
        IN  [risk_type |-> risk.risk_type,
             severity |-> risk.severity,
             impact |-> impact_scores(risk.severity),
             probability |-> probability_scores(risk.risk_type)]])

analyze_risk_factors(risk_flags) ==
    AsSeq([i \in 1..Len(risk_flags) |->
        [risk_type |-> risk_flags[i].risk_type,
         severity |-> risk_flags[i].severity,
         impact |-> impact_scores(risk_flags[i].severity),
         probability |-> probability_scores(risk_flags[i].risk_type)]])

calculate_risk_adjustment_uncapped(risk_factors) ==
    IF risk_factors = <<>> THEN RInt(0)
    ELSE RDivInt(RSum([i \in 1..Len(risk_factors) |->
                         RMul(risk_factors[i].impact, risk_factors[i].probability)]),
                 Len(risk_factors))

calculate_risk_adjustment(risk_factors) ==
    IF risk_factors = <<>> THEN RInt(0)
    ELSE LET total_risk == RSum([i \in 1..Len(risk_factors) |->
                 RMul(risk_factors[i].impact, risk_factors[i].probability)])
             avg_risk == RDivInt(total_risk, Len(risk_factors))
         IN  RMin(R(3, 10), avg_risk)

IsHigh(r) == r.severity = "high"

difficulty_of_exclusive(win_prob) ==
    IF RLt(R(7, 10), win_prob) THEN "low"
    ELSE IF RLt(R(4, 10), win_prob) THEN "medium"
    ELSE "high"

difficulty_of(win_prob) ==
    IF RLe(R(7, 10), win_prob) THEN "low"
    ELSE IF RLe(R(4, 10), win_prob) THEN "medium"
    ELSE "high"

determine_difficulty_and_probability_unclamped(adjusted_score, risk_factors) ==
    LET base_probability == RDivInt(RAdd(adjusted_score, RInt(1)), 2)
        high_risk_count == Len(SelectSeq(risk_factors, IsHigh))
        risk_penalty == RMul(RInt(high_risk_count), R(1, 10))
        win_prob == RSub(base_probability, risk_penalty)
    IN  <<difficulty_of(win_prob), win_prob>>

determine_difficulty_and_probability(adjusted_score, risk_factors) ==
    LET base_probability == RDivInt(RAdd(adjusted_score, RInt(1)), 2)
        high_risk_count == Len(SelectSeq(risk_factors, IsHigh))
        risk_penalty == RMul(RInt(high_risk_count), R(1, 10))
        win_prob == RMax(RInt(0),
                         RMin(RInt(1), RSub(base_probability, risk_penalty)))
    IN  <<difficulty_of(win_prob), win_prob>>

\* max(evaluation_scores, key=abs(weighted_score)): the first maximal element
TopScoreIndex(scores) ==
    CHOOSE i \in 1..Len(scores) :
        /\ \A j \in 1..Len(scores) :
              RLe(RAbs(scores[j].weighted_score), RAbs(scores[i].weighted_score))
        /\ \A j \in 1..(i - 1) :
              RLt(RAbs(scores[j].weighted_score), RAbs(scores[i].weighted_score))

identify_key_drivers_first_criterion(evaluation_scores, risk_factors) ==
    LET top_score == evaluation_scores[1]
        first == IF RLt(RInt(0), top_score.weighted_score)
                 THEN <<[kind |-> "advantage", of |-> top_score.criteria]>>
                 ELSE <<[kind |-> "disadvantage", of |-> top_score.criteria]>>
        high_risks == SelectSeq(risk_factors, IsHigh)
        risk == IF high_risks # <<>>
                THEN <<[kind |-> "risk", of |-> high_risks[1].risk_type]>>
                ELSE <<>>
        general == <<[kind |-> "general", of |-> "technical capability"],
                     [kind |-> "general", of |-> "project management"],
                     [kind |-> "general", of |-> "price competitiveness"]>>
    IN  Prefix(first \o risk \o general, 5)

identify_key_drivers(evaluation_scores, risk_factors) ==
    LET top_score == evaluation_scores[TopScoreIndex(evaluation_scores)]
        first == IF RLt(RInt(0), top_score.weighted_score)
                 THEN <<[kind |-> "advantage", of |-> top_score.criteria]>>
                 ELSE <<[kind |-> "disadvantage", of |-> top_score.criteria]>>
        high_risks == SelectSeq(risk_factors, IsHigh)
        risk == IF high_risks # <<>>
                THEN <<[kind |-> "risk", of |-> high_risks[1].risk_type]>>
                ELSE <<>>
        general == <<[kind |-> "general", of |-> "technical capability"],
                     [kind |-> "general", of |-> "project management"],
                     [kind |-> "general", of |-> "price competitiveness"]>>
    IN  Prefix(first \o risk \o general, 5)

calculate_confidence_without_floor(evaluation_scores, risk_factors) ==
    LET criteria_confidence == RMin(RInt(1), R(Len(evaluation_scores), 5))
        risk_confidence == RSub(RInt(1), RMul(RInt(Len(risk_factors)), R(1, 10)))
        overall_confidence == RDivInt(RAdd(criteria_confidence, risk_confidence), 2)
    IN  RMin(RInt(1), RMax(RInt(0), overall_confidence))

calculate_confidence(evaluation_scores, risk_factors) ==
    LET criteria_confidence == RMin(RInt(1), R(Len(evaluation_scores), 5))
        risk_confidence == RMax(R(3, 10),
                                RSub(RInt(1), RMul(RInt(Len(risk_factors)), R(1, 10))))
        overall_confidence == RDivInt(RAdd(criteria_confidence, risk_confidence), 2)
    IN  RMin(RInt(1), RMax(RInt(0), overall_confidence))

create_default_result_zero ==
    [overall_difficulty |-> "high",
     win_probability |-> RInt(0),
     evaluation_scores |-> <<>>,
     risk_factors |-> <<>>,
     key_drivers |-> <<>>,
     confidence_level |-> RInt(0)]

create_default_result ==
    [overall_difficulty |-> "medium",
     win_probability |-> R(1, 2),
     evaluation_scores |-> <<>>,
     risk_factors |-> <<>>,
     key_drivers |-> <<>>,
     confidence_level |-> RInt(0)]

\* The exceptions the try block of calculate_win_probability can meet:
\* AttributeError in _calculate_competitor_score (a dict profile, reached only
\* when there is a criterion to score) and ValueError of max() on an empty
\* list in _identify_key_drivers.
scoring_raises(evaluation_criteria, im, ca, risk_flags) ==
    \/ AnyObject(evaluation_criteria)
    \/ evaluation_criteria # <<>> /\ competitor_score_raises(ca)
    \/ AnyObject(risk_flags)
    \/ evaluation_criteria = <<>>

calculate_win_probability(evaluation_criteria, im, ca, risk_flags) ==
    IF scoring_raises(evaluation_criteria, im, ca, risk_flags)
    THEN create_default_result
    ELSE LET evaluation_scores ==
                 calculate_evaluation_scores(evaluation_criteria, im, ca)
             risk_factors == analyze_risk_factors(risk_flags)
             total_score == RSum([i \in 1..Len(evaluation_scores) |->
                                     evaluation_scores[i].weighted_score])
             risk_adjustment == calculate_risk_adjustment(risk_factors)
             adjusted_score == RMul(total_score, RSub(RInt(1), risk_adjustment))
             dp == determine_difficulty_and_probability(adjusted_score, risk_factors)
         IN  [overall_difficulty |-> dp[1],
              win_probability |-> dp[2],
              evaluation_scores |-> evaluation_scores,
              risk_factors |-> risk_factors,
              key_drivers |-> identify_key_drivers(evaluation_scores, risk_factors),
              confidence_level |-> calculate_confidence(evaluation_scores, risk_factors)]

(***************************************************************************)
(* Strategy synthesizer: StrategySynthesizerAgent                          *)
(* (strategy_synthesizer_agent.py).                                        *)
(*   skill gap [is_dict, skill_area, gap_size], gap_size in                *)
(*   "sufficient" / "lacking" / "severe"                                   *)
(***************************************************************************)
DictGet(d, key, default) == IF key \in DOMAIN d THEN d[key] ELSE default

gap_action(gap) ==
    IF gap.gap_size = "severe"
    THEN <<[action_type |-> "internal-reinforcement", description |-> gap.skill_area,
            priority |-> "high", success_probability |-> R(8, 10)]>>
    ELSE IF gap.gap_size = "lacking"
    THEN <<[action_type |-> "external-partnership", description |-> gap.skill_area,
            priority |-> "medium", success_probability |-> R(7, 10)]>>
    ELSE <<>>

risk_action(risk) ==
    IF risk.severity = "high"
    THEN <<[action_type |-> "spec-clarification", description |-> risk.risk_type,
            priority |-> "high", success_probability |-> R(9, 10)]>>
    ELSE <<>>

RECURSIVE FlatMap(_, _)
FlatMap(F(_), s) == IF s = <<>> THEN <<>> ELSE F(Head(s)) \o FlatMap(F, Tail(s))

generic_actions ==
    <<[action_type |-> "poc-proposal", description |-> "core technology PoC",
       priority |-> "medium", success_probability |-> R(6, 10)],
      [action_type |-> "internal-reinforcement",
       description |-> "project management process",
       priority |-> "low", success_probability |-> R(8, 10)]>>

generate_improvement_actions(rfp, im, wp) ==
    LET skill_gaps == DictGet(im, "skill_gaps", <<>>)
        risk_flags == DictGet(rfp, "risk_flags", <<>>)
        actions == FlatMap(gap_action, skill_gaps)
                   \o FlatMap(risk_action, risk_flags)
                   \o generic_actions
    IN  Prefix(actions, 8)

\* gap.gap_size / risk.severity on a dict raise AttributeError
improvement_actions_raise(rfp, im) ==
    \/ AnyDict(DictGet(im, "skill_gaps", <<>>))
    \/ AnyDict(DictGet(rfp, "risk_flags", <<>>))

gap_weakness(gap) ==
    IF gap.gap_size \in {"lacking", "severe"} THEN <<gap.skill_area>> ELSE <<>>

fixed_opportunities ==
    <<"digital transformation market", "AI/cloud demand", "SME market entry">>

fixed_threats ==
    <<"large-company competition", "pace of technology change", "price pressure">>

synthesize_company_swot(im, ca, rfp) ==
    LET strengths == DictGet(im, "our_advantages", <<>>)
                     \o <<"fast decision-making structure",
                          "flexible project management", "innovative technology">>
        weaknesses == DictGet(im, "our_disadvantages", <<>>)
                      \o FlatMap(gap_weakness, DictGet(im, "skill_gaps", <<>>))
    IN  [strengths |-> strengths,
         weaknesses |-> weaknesses,
         opportunities |-> fixed_opportunities,
         threats |-> fixed_threats,
         strategic_focus |-> <<"tailored solutions", "fast prototyping",
                               "competitive price">>]

create_differentiation_messages(ca, rfp) ==
    LET evaluation_criteria == Prefix(DictGet(rfp, "evaluation_criteria", <<>>), 3)
        differentiation_points == DictGet(ca, "differentiation_points", <<>>)
        n == IF Len(evaluation_criteria) < Len(differentiation_points)
             THEN Len(evaluation_criteria) ELSE Len(differentiation_points)
        messages == [i \in 1..n |->
                        [key_point |-> differentiation_points[i],
                         evaluation_criteria |-> evaluation_criteria[i].item]]
    IN  IF messages = <<>>
        THEN <<[key_point |-> "tailored solutions",
                evaluation_criteria |-> "overall evaluation"]>>
        ELSE messages

\* criteria.get on an EvaluationCriteria object raises AttributeError; it is
\* reached only for a criterion that has a differentiation point to pair with
differentiation_messages_raise(ca, rfp) ==
    AnyObject(Prefix(Prefix(DictGet(rfp, "evaluation_criteria", <<>>), 3),
                     Len(DictGet(ca, "differentiation_points", <<>>))))

difficulty_messages(difficulty) ==
    IF difficulty = "high"
    THEN <<"risk-averse: careful approach", "risk-averse: risk management",
           "risk-averse: strengthen differentiation">>
    ELSE IF difficulty = "medium"
    THEN <<"balanced: balanced approach", "balanced: core requirements",
           "balanced: price competitiveness">>
    ELSE <<"aggressive: use strengths", "aggressive: fast decisions",
           "aggressive: customer relationship">>

IsHighPriority(a) == a.priority = "high"

generate_strategic_recommendations_at_least(improvement_actions, company_swot, wp) ==
    LET difficulty == DictGet(wp, "overall_difficulty", "medium")
        swot_item == IF Len(company_swot.weaknesses) >= Len(company_swot.strengths)
                     THEN <<"invest to cover weaknesses">> ELSE <<>>
        action_item == IF SelectSeq(improvement_actions, IsHighPriority) # <<>>
                       THEN <<"execute high-priority actions now">> ELSE <<>>
    IN  Prefix(difficulty_messages(difficulty) \o swot_item \o action_item, 5)

generate_strategic_recommendations(improvement_actions, company_swot, wp) ==
    LET difficulty == DictGet(wp, "overall_difficulty", "medium")
        swot_item == IF Len(company_swot.weaknesses) > Len(company_swot.strengths)
                     THEN <<"invest to cover weaknesses">> ELSE <<>>
        action_item == IF SelectSeq(improvement_actions, IsHighPriority) # <<>>
                       THEN <<"execute high-priority actions now">> ELSE <<>>
    IN  Prefix(difficulty_messages(difficulty) \o swot_item \o action_item, 5)

identify_success_factors_from_threshold(im, ca, wp) ==
    LET readiness == DictGet(im, "overall_readiness", "low")
        our_advantages == DictGet(ca, "our_advantages", <<>>)
        win_prob == DictGet(wp, "win_probability", R(1, 2))
        factors ==
            (IF readiness = "high" THEN <<"high internal readiness">> ELSE <<>>)
            \o (IF our_advantages # <<>> THEN <<"competitive advantage">> ELSE <<>>)
            \o (IF RLe(R(6, 10), win_prob) THEN <<"high win probability">> ELSE <<>>)
            \o <<"clear requirement understanding", "effective project management",
                 "close customer cooperation", "technical excellence",
                 "competitive proposal">>
    IN  Prefix(factors, 7)

identify_success_factors(im, ca, wp) ==
    LET readiness == DictGet(im, "overall_readiness", "low")
        our_advantages == DictGet(ca, "our_advantages", <<>>)
        win_prob == DictGet(wp, "win_probability", R(1, 2))
        factors ==
            (IF readiness = "high" THEN <<"high internal readiness">> ELSE <<>>)
            \o (IF our_advantages # <<>> THEN <<"competitive advantage">> ELSE <<>>)
            \o (IF RLt(R(6, 10), win_prob) THEN <<"high win probability">> ELSE <<>>)
            \o <<"clear requirement understanding", "effective project management",
                 "close customer cooperation", "technical excellence",
                 "competitive proposal">>
    IN  Prefix(factors, 7)

create_default_synthesis ==
    [improvement_actions |-> <<>>,
     company_swot |-> [strengths |-> <<>>, weaknesses |-> <<>>,
                       opportunities |-> <<>>, threats |-> <<>>,
                       strategic_focus |-> <<>>],
     differentiation_messages |-> <<>>,
     strategic_recommendations |-> <<>>,
     success_factors |-> <<>>]

synthesis_raises(rfp, im, ca, wp) ==
    \/ improvement_actions_raise(rfp, im)
    \/ differentiation_messages_raise(ca, rfp)

synthesize_strategy(rfp, im, ca, wp) ==
    IF synthesis_raises(rfp, im, ca, wp)
    THEN create_default_synthesis
    ELSE LET improvement_actions == generate_improvement_actions(rfp, im, wp)
             company_swot == synthesize_company_swot(im, ca, rfp)
         IN  [improvement_actions |-> improvement_actions,
              company_swot |-> company_swot,
              differentiation_messages |-> create_differentiation_messages(ca, rfp),
              strategic_recommendations |->
                  generate_strategic_recommendations(improvement_actions,
                                                     company_swot, wp),
              success_factors |-> identify_success_factors(im, ca, wp)]

(***************************************************************************)
(* External stages, as far as the orchestrator depends on them.            *)
(***************************************************************************)
NoneRec == [none |-> TRUE]

\* CompetitorIntelligenceAgent.competitor_data: every entry of the database
\* lists three strengths and two weaknesses
competitor_data ==
    {"Samsung SDS", "LG CNS", "POSCO DX", "KT", "Hyundai AutoEver", "Kakao",
     "CJ OliveNetworks"}

default_competitors ==
    <<"Samsung SDS", "LG CNS", "POSCO DX", "KT", "Hyundai AutoEver", "Kakao",
      "CJ OliveNetworks">>

create_competitor_profile(competitor) ==
    [is_dict |-> FALSE, company_name |-> competitor,
     strengths |-> 3, weaknesses |-> 2]

InDatabase(competitor) == competitor \in competitor_data

analyze_competitors(competitor_list, requirements) ==
    LET known == SelectSeq(competitor_list, InDatabase)
    IN  [competitor_profiles |->
             [i \in 1..Len(known) |-> create_competitor_profile(known[i])],
         our_advantages |-> <<"fast decision making", "flexible project management",
                              "innovative technology", "competitive price">>,
         our_disadvantages |-> <<"few large customers", "limited global network",
                                 "R&D investment", "brand awareness">>,
         differentiation_points |-> <<"tailored solutions", "fast prototyping",
                                      "agile development", "transparent communication",
                                      "competitive price">>]

\* RFPUnderstandingAgent._create_default_result
default_rfp_analysis ==
    [requirements |-> <<>>, evaluation_criteria |-> <<>>, risk_flags |-> <<>>]

MentionsCloud(req) == req.description = "cloud"

\* InternalRAGAgent._analyze_skill_gaps: one "lacking" gap per skill area that
\* a requirement mentions
analyze_skill_gaps(requirements) ==
    IF SelectSeq(requirements, MentionsCloud) # <<>>
    THEN <<[is_dict |-> FALSE, skill_area |-> "cloud", gap_size |-> "lacking"]>>
    ELSE <<>>

IsSevere(gap) == gap.gap_size = "severe"

\* InternalRAGAgent._evaluate_readiness
evaluate_readiness(n_matches, skill_gaps, n_references) ==
    LET match_score == RMul(RInt(n_matches), R(3, 10))
        gap_penalty == RMul(RInt(Len(SelectSeq(skill_gaps, IsSevere))), R(2, 10))
        ref_score == RMul(RInt(n_references), R(2, 10))
        total_score == RMax(RInt(0), RSub(RAdd(match_score, ref_score), gap_penalty))
    IN  IF RLe(R(8, 10), total_score) THEN <<"high", total_score>>
        ELSE IF RLe(R(5, 10), total_score) THEN <<"medium", total_score>>
        ELSE <<"low", total_score>>

match_requirements(requirements, n_matches, n_references) ==
    LET skill_gaps == analyze_skill_gaps(requirements)
        rc == evaluate_readiness(n_matches, skill_gaps, n_references)
    IN  [project_matches |-> n_matches, skill_gaps |-> skill_gaps,
         references |-> n_references,
         overall_readiness |-> rc[1], confidence_score |-> rc[2]]

(***************************************************************************)
(* dataclasses.asdict: the instance and every dataclass nested in it       *)
(* become dicts.                                                           *)
(***************************************************************************)
asdict_each(s) == [i \in 1..Len(s) |-> [s[i] EXCEPT !.is_dict = TRUE]]

asdict_rfp(rfp) ==
    [requirements |-> asdict_each(rfp.requirements),
     evaluation_criteria |-> asdict_each(rfp.evaluation_criteria),
     risk_flags |-> asdict_each(rfp.risk_flags)]

asdict_match(im) == [im EXCEPT !.skill_gaps = asdict_each(im.skill_gaps)]

asdict_competitors(ca) ==
    [ca EXCEPT !.competitor_profiles = asdict_each(ca.competitor_profiles)]

(***************************************************************************)
(* Pipeline orchestrator: DealLensOrchestrator (deal_lens_orchestrator.py) *)
(***************************************************************************)
MinRfpLength == 100
MaxCompetitors == 10

IsSpace(c) == c = " "

\* str.strip(): drop the leading and the trailing whitespace
RECURSIVE LStrip(_)
LStrip(s) == IF s # <<>> /\ IsSpace(Head(s)) THEN LStrip(Tail(s)) ELSE s

RECURSIVE RStrip(_)
RStrip(s) ==
    IF s # <<>> /\ IsSpace(s[Len(s)]) THEN RStrip(SubSeq(s, 1, Len(s) - 1)) ELSE s

Strip(s) == RStrip(LStrip(s))

\* competitors is <<>> for None and <<list>> for a list
IsNone(opt) == opt = <<>>
Some(x) == <<x>>

\* len(None) at the second competitor check raises TypeError
validate_inputs_raises(content, competitor_opt) == IsNone(competitor_opt)

validate_inputs_untrimmed(content, competitor_list) ==
    LET too_short == content = <<>> \/ Len(content) < MinRfpLength
    IN  [is_valid |-> ~too_short,
         errors |-> IF too_short THEN <<"RFP content too short">> ELSE <<>>,
         warnings |->
             (IF competitor_list = <<>> THEN <<"competitor list empty">> ELSE <<>>)
             \o (IF Len(competitor_list) > MaxCompetitors THEN <<"too many competitors">>
                 ELSE <<>>)]

validate_inputs(content, competitor_list) ==
    LET too_short == content = <<>> \/ Len(Strip(content)) < MinRfpLength
    IN  [is_valid |-> ~too_short,
         errors |-> IF too_short THEN <<"RFP content too short">> ELSE <<>>,
         warnings |->
             (IF competitor_list = <<>> THEN <<"competitor list empty">> ELSE <<>>)
             \o (IF Len(competitor_list) > MaxCompetitors THEN <<"too many competitors">>
                 ELSE <<>>)]

generate_execution_summary(rfp, im, ca, wp, synthesis) ==
    [execution_time |-> "analysis complete",
     total_requirements |-> Len(rfp.requirements),
     total_competitors |-> Len(ca.competitor_profiles),
     total_risks |-> Len(rfp.risk_flags),
     overall_difficulty |-> wp.overall_difficulty,
     win_probability |-> wp.win_probability,
     confidence_level |-> wp.confidence_level,
     key_recommendations |-> Len(synthesis.strategic_recommendations)]

create_error_result_easy ==
    [rfp_analysis |-> [requirements |-> <<>>, evaluation_criteria |-> <<>>,
                       risk_flags |-> <<>>],
     internal_match |-> [project_matches |-> 0, skill_gaps |-> <<>>,
                         references |-> 0, overall_readiness |-> "low",
                         confidence_score |-> RInt(0)],
     competitor_analysis |-> [competitor_profiles |-> <<>>, our_advantages |-> <<>>,
                              our_disadvantages |-> <<>>,
                              differentiation_points |-> <<>>],
     win_probability |-> [overall_difficulty |-> "low",
                          win_probability |-> R(1, 2),
                          evaluation_scores |-> <<>>, risk_factors |-> <<>>,
                          key_drivers |-> <<>>, confidence_level |-> RInt(0)],
     strategy_synthesis |-> [improvement_actions |-> <<>>,
                             company_swot |-> NoneRec,
                             differentiation_messages |-> <<>>,
                             strategic_recommendations |-> <<>>,
                             success_factors |-> <<>>],
     execution_summary |-> [error |-> "analysis failed"]]

create_error_result ==
    [rfp_analysis |-> [requirements |-> <<>>, evaluation_criteria |-> <<>>,
                       risk_flags |-> <<>>],
     internal_match |-> [project_matches |-> 0, skill_gaps |-> <<>>,
                         references |-> 0, overall_readiness |-> "low",
                         confidence_score |-> RInt(0)],
     competitor_analysis |-> [competitor_profiles |-> <<>>, our_advantages |-> <<>>,
                              our_disadvantages |-> <<>>,
                              differentiation_points |-> <<>>],
     win_probability |-> [overall_difficulty |-> "medium",
                          win_probability |-> R(1, 2),
                          evaluation_scores |-> <<>>, risk_factors |-> <<>>,
                          key_drivers |-> <<>>, confidence_level |-> RInt(0)],
     strategy_synthesis |-> [improvement_actions |-> <<>>,
                             company_swot |-> NoneRec,
                             differentiation_messages |-> <<>>,
                             strategic_recommendations |-> <<>>,
                             success_factors |-> <<>>],
     execution_summary |-> [error |-> "analysis failed"]]

(***************************************************************************)
(* export_analysis_report.  A JSON text is modelled by the tree of dicts,  *)
(* lists, strings, numbers and None it spells out: json.dumps writes a     *)
(* float as the shortest decimal that reads back as the same float, so the *)
(* text carries the tree it was written from.  What is lost is lost before *)
(* the text is written: asdict drops the classes, get_analysis_summary     *)
(* keeps eight values and formats the probability.                         *)
(***************************************************************************)
asdict_result(r) ==
    [rfp_analysis |-> asdict_rfp(r.rfp_analysis),
     internal_match |-> asdict_match(r.internal_match),
     competitor_analysis |-> asdict_competitors(r.competitor_analysis),
     win_probability |-> r.win_probability,
     strategy_synthesis |-> r.strategy_synthesis,
     execution_summary |-> r.execution_summary]

\* f"{p:.1%}": p as a percentage with one decimal, that is p rounded to a
\* whole number of thousandths.  The float is rounded by its binary value, so
\* a p that lies exactly half-way in decimal may go either way.
FormatPercent(p) ==
    LET q == (1000 * p[1]) \div p[2]
        twice_rest == 2 * ((1000 * p[1]) % p[2])
    IN  IF twice_rest < p[2] THEN {q}
        ELSE IF twice_rest > p[2] THEN {q + 1}
        ELSE {q, q + 1}

\* the text "x.y%" read back as a number
ParsePercent(thousandths) == R(thousandths, 1000)

get_analysis_summary(r, thousandths) ==
    [project_title |-> "RFP analysis",
     difficulty |-> r.win_probability.overall_difficulty,
     win_probability |-> [percent_text |-> thousandths],
     requirements |-> Len(r.rfp_analysis.requirements),
     competitors |-> Len(r.competitor_analysis.competitor_profiles),
     risks |-> Len(r.rfp_analysis.risk_flags),
     improvement_actions |-> Len(r.strategy_synthesis.improvement_actions),
     overall_readiness |-> r.internal_match.overall_readiness]

json_dumps(tree) == [json |-> tree]

json_loads(text) == text.json

\* the texts export_analysis_report can return for a result and a format
export_analysis_report(r, format) ==
    IF format = "json" THEN {json_dumps(asdict_result(r))}
    ELSE IF format = "summary"
    THEN {json_dumps(get_analysis_summary(r, k)) :
              k \in FormatPercent(r.win_probability.win_probability)}
    ELSE {[plain |-> "unsupported format"]}

(***************************************************************************)
(* The mutable objects of the orchestrator.  An object is named by its     *)
(* owner ("orchestrator", "caller" or a run), by what it belongs to and by *)
(* its part; the heap gives the objects it refers to and, for the lists of *)
(* the orchestrator, its number of elements.                               *)
(***************************************************************************)
Object(owner, of, part) == [owner |-> owner, of |-> of, part |-> part]

\* the list-valued entries of one competitor in competitor_data
DbFields == {"portfolio", "tech_stack", "partnerships", "strengths", "weaknesses"}

DbObject(name, field) == Object("orchestrator", name, field)

DefaultCompetitorsObject == Object("orchestrator", "default_competitors", "list")

ReferenceObjects ==
    {DefaultCompetitorsObject}
    \cup {DbObject(name, field) : name \in competitor_data, field \in DbFields}

DbSize(name, field) ==
    CASE field = "portfolio" ->
             IF name \in {"POSCO DX", "Hyundai AutoEver"} THEN 4 ELSE 5
      [] field = "weaknesses" -> 2
      [] OTHER -> 3

ReferenceHeap ==
    [o \in ReferenceObjects |->
        [size |-> IF o = DefaultCompetitorsObject THEN Len(default_competitors)
                  ELSE DbSize(o.of, o.part),
         refs |-> {}]]

(***************************************************************************)
(* Inputs.                                                                 *)
(***************************************************************************)
\* An RFP text of l leading blanks, a body of b characters (with one blank
\* inside when b >= 3) and t trailing blanks
Content(l, b, t) ==
    [i \in 1..(l + b + t) |->
        IF i <= l \/ i > l + b THEN " "
        ELSE IF i = l + 2 /\ b >= 3 THEN " "
        ELSE "x"]

BodyLengths == {0, 1, MinRfpLength - 1, MinRfpLength, MinRfpLength + 1}

Contents == {Content(l, b, t) : l \in 0..MaxPad, b \in BodyLengths, t \in 0..MaxPad}

OversizedList ==
    [i \in 1..(MaxCompetitors + 1) |->
        IF i <= Len(default_competitors) THEN default_competitors[i] ELSE "Other Co"]

CompetitorInputs ==
    {<<>>, Some(<<>>), Some(<<"Samsung SDS">>), Some(<<"Other Co">>),
     Some(OversizedList)}

\* st.multiselect over DEFAULT_COMPETITORS; main returns early on an empty
\* selection
MainCompetitorInputs == {Some(<<"Samsung SDS">>), Some(<<"Samsung SDS", "LG CNS">>)}

ItemName(i) == "criterion " \o ToString(i)

Weights == {R(1, 5), R(3, 10), R(1, 2)}

CriteriaOf(ws, as_dict) ==
    [i \in 1..Len(ws) |-> [is_dict |-> as_dict, item |-> ItemName(i), weight |-> ws[i]]]

WeightLists == UNION {[1..n -> Weights] : n \in 0..MaxCriteria}

RiskFlagKinds ==
    {[risk_type |-> "ambiguity", severity |-> "high"],
     [risk_type |-> "other", severity |-> "medium"],
     [risk_type |-> "contradiction", severity |-> "low"]}

RiskFlagsOf(ks, as_dict) ==
    [i \in 1..Len(ks) |-> [is_dict |-> as_dict, risk_type |-> ks[i].risk_type,
                           severity |-> ks[i].severity]]

RiskKindLists == UNION {[1..n -> RiskFlagKinds] : n \in 0..MaxRisks}

\* enough risk flags for the floor of the risk confidence (1 - 0.1 * 8 < 0.3)
ManyRiskKinds == [i \in 1..8 |-> [risk_type |-> "other", severity |-> "low"]]

ScoringRiskKindLists == RiskKindLists \cup {ManyRiskKinds}

\* every category (the five keys of probability_scores and one that is not a
\* key) with every severity
AllRiskFlagKinds ==
    {[risk_type |-> t, severity |-> v] :
        t \in {"contradiction", "ambiguity", "legal", "security", "licensing", "other"},
        v \in {"high", "medium", "low"}}

AllRiskKindLists == UNION {[1..n -> AllRiskFlagKinds] : n \in 0..MaxRisks}

\* what analyze_rfp can return in a pipeline run (the LLM decides)
ExtractedRequirements ==
    {<<>>, <<[is_dict |-> FALSE, description |-> "cloud"]>>,
     <<[is_dict |-> FALSE, description |-> "pricing"]>>}

ExtractedWeights == {<<>>, <<R(1, 5)>>, <<R(1, 5), R(3, 10), R(1, 2)>>}

ExtractedRisks ==
    {<<>>, <<[risk_type |-> "ambiguity", severity |-> "high"]>>,
     <<[risk_type |-> "legal", severity |-> "medium"]>>}

RfpAnalyses ==
    {[requirements |-> rq, evaluation_criteria |-> CriteriaOf(ws, FALSE),
      risk_flags |-> RiskFlagsOf(ks, FALSE)] :
        rq \in ExtractedRequirements, ws \in ExtractedWeights, ks \in ExtractedRisks}

\* inputs of a direct call of calculate_win_probability
ScoringMatches ==
    {[overall_readiness |-> r, confidence_score |-> c, skill_gaps |-> <<>>] :
        r \in {"high", "medium", "low"}, c \in {RInt(0), RInt(1)}}

StrongProfile == [is_dict |-> FALSE, company_name |-> "strong", strengths |-> 6,
                  weaknesses |-> 0]
WeakProfile == [is_dict |-> FALSE, company_name |-> "weak", strengths |-> 0,
                weaknesses |-> 11]
DictProfile == [is_dict |-> TRUE, company_name |-> "dict", strengths |-> 3,
                weaknesses |-> 2]

\* scores 0.3, the score of a bidder of low readiness and full confidence
EvenProfile == [is_dict |-> FALSE, company_name |-> "even", strengths |-> 0,
                weaknesses |-> 4]

ProfileLists ==
    {<<>>, <<StrongProfile>>, <<WeakProfile>>, <<StrongProfile, WeakProfile>>,
     <<EvenProfile>>, <<DictProfile>>}

ScoringAnalyses ==
    {[competitor_profiles |-> ps, our_advantages |-> <<>>, our_disadvantages |-> <<>>,
      differentiation_points |-> <<>>] : ps \in ProfileLists}

(***************************************************************************)
(* The pipeline as a state machine.  A run is started from the UI          *)
(* (main.py: validate_inputs, then run_full_analysis), by a direct call of *)
(* run_full_analysis, or validate_inputs is called on its own.             *)
(***************************************************************************)
RunningPcs == {"run_start", "extracted", "matched", "competed", "scored",
               "synthesized"}

StartState(e, content, comps) ==
    /\ entry = e
    /\ pc = CASE e = "main" -> "main_clicked"
              [] e = "direct" -> "run_start"
              [] OTHER -> "validate_call"
    /\ rfp_content = content
    /\ competitors = comps
    /\ validation = NoneRec
    /\ rfp_analysis = NoneRec
    /\ internal_match = NoneRec
    /\ competitor_analysis = NoneRec
    /\ win_probability = NoneRec
    /\ strategy_synthesis = NoneRec
    /\ result = NoneRec
    /\ stages = <<>>
    /\ errors = <<>>
    /\ report = NoneRec
    /\ run_state = <<>>
    /\ heap = <<>>

\* the start button of main.py is disabled while the stripped text is empty
\* run_full_analysis hands the text to the extraction chain without looking
\* at it: one text below and one at the threshold of validate_inputs stand for
\* all texts of a direct call
DirectContents == {Content(0, MinRfpLength - 1, 0), Content(0, MinRfpLength, 0)}

Startable(e, content, comps) ==
    /\ e = "main" => Strip(content) # <<>> /\ comps \in MainCompetitorInputs
    /\ e = "direct" => content \in DirectContents

Init ==
    \E e \in {"main", "direct", "validate"}, content \in Contents,
       comps \in CompetitorInputs \cup MainCompetitorInputs :
        /\ Startable(e, content, comps)
        /\ StartState(e, content, comps)

\* main.py: the validation in front of run_full_analysis
MainValidate ==
    /\ pc = "main_clicked"
    /\ LET v == validate_inputs(rfp_content, competitors[1])
       IN  /\ validation' = v
           /\ errors' = errors \o v.errors
           /\ pc' = IF v.is_valid THEN "run_start" ELSE "rejected"
    /\ UNCHANGED <<report, run_state, heap>>
    /\ UNCHANGED <<entry, rfp_content, competitors, rfp_analysis, internal_match,
                   competitor_analysis, win_probability, strategy_synthesis,
                   result, stages>>

\* validate_inputs called on its own
CallValidateInputs ==
    /\ pc = "validate_call"
    /\ IF validate_inputs_raises(rfp_content, competitors)
       THEN /\ pc' = "validate_raised"
            /\ UNCHANGED validation
       ELSE /\ validation' = validate_inputs(rfp_content, competitors[1])
            /\ pc' = "validate_returned"
    /\ UNCHANGED <<report, run_state, heap>>
    /\ UNCHANGED <<entry, rfp_content, competitors, rfp_analysis, internal_match,
                   competitor_analysis, win_probability, strategy_synthesis,
                   result, stages, errors>>

\* run_full_analysis up to the return of stage 1 (analyze_rfp)
Extract ==
    /\ pc = "run_start"
    /\ competitors' = IF IsNone(competitors) THEN Some(default_competitors)
                      ELSE competitors
    /\ rfp_analysis' \in RfpAnalyses
    /\ stages' = Append(stages, "extraction")
    /\ pc' = "extracted"
    /\ UNCHANGED <<report, run_state, heap>>
    /\ UNCHANGED <<entry, rfp_content, validation, internal_match,
                   competitor_analysis, win_probability, strategy_synthesis,
                   result, errors>>

\* stage 2 (match_requirements); the vector store returns its three projects
\* or nothing, the reference search zero or one reference
Match ==
    /\ pc = "extracted"
    /\ \E n_matches \in {0, 3}, n_references \in {0, 1} :
          internal_match' =
              match_requirements(rfp_analysis.requirements, n_matches, n_references)
    /\ stages' = Append(stages, "matching")
    /\ pc' = "matched"
    /\ UNCHANGED <<report, run_state, heap>>
    /\ UNCHANGED <<entry, rfp_content, competitors, validation, rfp_analysis,
                   competitor_analysis, win_probability, strategy_synthesis,
                   result, errors>>

\* stage 3 (analyze_competitors)
Compete ==
    /\ pc = "matched"
    /\ competitor_analysis' =
           analyze_competitors(competitors[1], rfp_analysis.requirements)
    /\ stages' = Append(stages, "competitor analysis")
    /\ pc' = "competed"
    /\ UNCHANGED <<report, run_state, heap>>
    /\ UNCHANGED <<entry, rfp_content, competitors, validation, rfp_analysis,
                   internal_match, win_probability, strategy_synthesis,
                   result, errors>>

\* stage 4 called once more after it has surfaced a failure
Score_retried ==
    /\ \/ pc = "competed"
       \/ pc = "scored" /\ errors # <<>> /\ Len(stages) < 5
    /\ LET criteria == asdict_each(rfp_analysis.evaluation_criteria)
           im == asdict_match(internal_match)
           ca == asdict_competitors(competitor_analysis)
           risk_flags == asdict_each(rfp_analysis.risk_flags)
       IN  /\ win_probability' = calculate_win_probability(criteria, im, ca, risk_flags)
           /\ errors' = IF scoring_raises(criteria, im, ca, risk_flags)
                        THEN Append(errors, "scoring failed") ELSE errors
    /\ stages' = Append(stages, "scoring")
    /\ pc' = "scored"
    /\ UNCHANGED <<report, run_state, heap>>
    /\ UNCHANGED <<entry, rfp_content, competitors, validation, rfp_analysis,
                   internal_match, competitor_analysis, strategy_synthesis, result>>

\* stage 4 (calculate_win_probability on the asdict copies)
Score ==
    /\ pc = "competed"
    /\ LET criteria == asdict_each(rfp_analysis.evaluation_criteria)
           im == asdict_match(internal_match)
           ca == asdict_competitors(competitor_analysis)
           risk_flags == asdict_each(rfp_analysis.risk_flags)
       IN  /\ win_probability' = calculate_win_probability(criteria, im, ca, risk_flags)
           /\ errors' = IF scoring_raises(criteria, im, ca, risk_flags)
                        THEN Append(errors, "scoring failed") ELSE errors
    /\ stages' = Append(stages, "scoring")
    /\ pc' = "scored"
    /\ UNCHANGED <<report, run_state, heap>>
    /\ UNCHANGED <<entry, rfp_content, competitors, validation, rfp_analysis,
                   internal_match, competitor_analysis, strategy_synthesis, result>>

Synthesize_on_default ==
    /\ pc = "scored"
    /\ LET rfp == asdict_rfp(rfp_analysis)
           im == asdict_match(internal_match)
           ca == asdict_competitors(competitor_analysis)
       IN  /\ strategy_synthesis' = synthesize_strategy(rfp, im, ca, create_default_result)
           /\ errors' = IF synthesis_raises(rfp, im, ca, create_default_result)
                        THEN Append(errors, "synthesis failed") ELSE errors
    /\ stages' = Append(stages, "synthesis")
    /\ pc' = "synthesized"
    /\ UNCHANGED <<report, run_state, heap>>
    /\ UNCHANGED <<entry, rfp_content, competitors, validation, rfp_analysis,
                   internal_match, competitor_analysis, win_probability, result>>

\* stage 5 (synthesize_strategy on the asdict copies)
Synthesize ==
    /\ pc = "scored"
    /\ LET rfp == asdict_rfp(rfp_analysis)
           im == asdict_match(internal_match)
           ca == asdict_competitors(competitor_analysis)
       IN  /\ strategy_synthesis' = synthesize_strategy(rfp, im, ca, win_probability)
           /\ errors' = IF synthesis_raises(rfp, im, ca, win_probability)
                        THEN Append(errors, "synthesis failed") ELSE errors
    /\ stages' = Append(stages, "synthesis")
    /\ pc' = "synthesized"
    /\ UNCHANGED <<report, run_state, heap>>
    /\ UNCHANGED <<entry, rfp_content, competitors, validation, rfp_analysis,
                   internal_match, competitor_analysis, win_probability, result>>

Finish_trimming_drivers ==
    /\ pc = "synthesized"
    /\ win_probability' =
           [win_probability EXCEPT !.key_drivers = Prefix(win_probability.key_drivers, 3)]
    /\ result' = [rfp_analysis |-> rfp_analysis,
                  internal_match |-> internal_match,
                  competitor_analysis |-> competitor_analysis,
                  win_probability |-> win_probability',
                  strategy_synthesis |-> strategy_synthesis,
                  execution_summary |->
                      generate_execution_summary(rfp_analysis, internal_match,
                          competitor_analysis, win_probability, strategy_synthesis)]
    /\ pc' = "done"
    /\ UNCHANGED <<report, run_state, heap>>
    /\ UNCHANGED <<entry, rfp_content, competitors, validation, rfp_analysis,
                   internal_match, competitor_analysis,
                   strategy_synthesis, stages, errors>>

\* the execution summary and the return of run_full_analysis
Finish ==
    /\ pc = "synthesized"
    /\ result' = [rfp_analysis |-> rfp_analysis,
                  internal_match |-> internal_match,
                  competitor_analysis |-> competitor_analysis,
                  win_probability |-> win_probability,
                  strategy_synthesis |-> strategy_synthesis,
                  execution_summary |->
                      generate_execution_summary(rfp_analysis, internal_match,
                          competitor_analysis, win_probability, strategy_synthesis)]
    /\ pc' = "done"
    /\ UNCHANGED <<report, run_state, heap>>
    /\ UNCHANGED <<entry, rfp_content, competitors, validation, rfp_analysis,
                   internal_match, competitor_analysis, win_probability,
                   strategy_synthesis, stages, errors>>

\* an exception that reaches the except clause of run_full_analysis: the
\* agents catch their own, so it comes from the progress display calls made
\* before each stage and before the summary
PipelineError ==
    /\ pc \in RunningPcs
    /\ result' = create_error_result
    /\ errors' = Append(errors, "pipeline failed")
    /\ pc' = "failed"
    /\ UNCHANGED <<report, run_state, heap>>
    /\ UNCHANGED <<entry, rfp_content, competitors, validation, rfp_analysis,
                   internal_match, competitor_analysis, win_probability,
                   strategy_synthesis, stages>>

\* export_analysis_report on the result of the run (the report tab of main.py
\* asks for "json" and "summary")
ExportReport ==
    /\ pc \in {"done", "failed"}
    /\ \E format \in {"json", "summary", "text"} :
          \E text \in export_analysis_report(result, format) :
              report' = [format |-> format, text |-> text]
    /\ UNCHANGED <<run_state, heap>>
    /\ UNCHANGED <<pc, entry, rfp_content, competitors, validation, rfp_analysis,
                   internal_match, competitor_analysis, win_probability,
                   strategy_synthesis, result, stages, errors>>

Next ==
    \/ MainValidate
    \/ CallValidateInputs
    \/ Extract
    \/ Match
    \/ Compete
    \/ Score
    \/ Synthesize
    \/ Finish
    \/ PipelineError
    \/ ExportReport

Spec == Init /\ [][Next]_vars

(***************************************************************************)
(* Direct calls of calculate_win_probability with every combination of the *)
(* bounded inputs.                                                         *)
(***************************************************************************)
InitScoring ==
    /\ entry = "scoring"
    /\ pc = "score_call"
    /\ rfp_content = <<>>
    /\ competitors = <<>>
    /\ validation = NoneRec
    /\ \E ws \in WeightLists, ks \in ScoringRiskKindLists :
          rfp_analysis = [requirements |-> <<>>,
                          evaluation_criteria |-> CriteriaOf(ws, TRUE),
                          risk_flags |-> RiskFlagsOf(ks, TRUE)]
    /\ internal_match \in ScoringMatches
    /\ competitor_analysis \in ScoringAnalyses
    /\ win_probability = NoneRec
    /\ strategy_synthesis = NoneRec
    /\ result = NoneRec
    /\ stages = <<>>
    /\ errors = <<>>
    /\ report = NoneRec
    /\ run_state = <<>>
    /\ heap = <<>>

CallCalculateWinProbability ==
    /\ pc = "score_call"
    /\ win_probability' =
           calculate_win_probability(rfp_analysis.evaluation_criteria, internal_match,
                                     competitor_analysis, rfp_analysis.risk_flags)
    /\ errors' = IF scoring_raises(rfp_analysis.evaluation_criteria, internal_match,
                                   competitor_analysis, rfp_analysis.risk_flags)
                 THEN Append(errors, "scoring failed") ELSE errors
    /\ stages' = Append(stages, "scoring")
    /\ pc' = "score_returned"
    /\ UNCHANGED <<report, run_state, heap>>
    /\ UNCHANGED <<entry, rfp_content, competitors, validation, rfp_analysis,
                   internal_match, competitor_analysis, strategy_synthesis, result>>

NextScoring == CallCalculateWinProbability

SpecScoring == InitScoring /\ [][NextScoring]_vars

(***************************************************************************)
(* Direct calls of calculate_win_probability that differ in their risk     *)
(* flags only: one criterion, no competitor profile, every list of risk    *)
(* flags over all categories and severities.                               *)
(***************************************************************************)
InitRiskFactors ==
    /\ entry = "scoring"
    /\ pc = "score_call"
    /\ rfp_content = <<>>
    /\ competitors = <<>>
    /\ validation = NoneRec
    /\ \E ks \in AllRiskKindLists :
          rfp_analysis = [requirements |-> <<>>,
                          evaluation_criteria |-> CriteriaOf(<<R(1, 2)>>, TRUE),
                          risk_flags |-> RiskFlagsOf(ks, TRUE)]
    /\ internal_match = [overall_readiness |-> "medium", confidence_score |-> RInt(1),
                         skill_gaps |-> <<>>]
    /\ competitor_analysis = [competitor_profiles |-> <<>>, our_advantages |-> <<>>,
                              our_disadvantages |-> <<>>,
                              differentiation_points |-> <<>>]
    /\ win_probability = NoneRec
    /\ strategy_synthesis = NoneRec
    /\ result = NoneRec
    /\ stages = <<>>
    /\ errors = <<>>
    /\ report = NoneRec
    /\ run_state = <<>>
    /\ heap = <<>>

SpecRiskFactors == InitRiskFactors /\ [][NextScoring]_vars

(***************************************************************************)
(* Direct calls of synthesize_strategy.  The arguments are dicts; the      *)
(* skill gaps and risk flags inside them are objects, or dicts as asdict   *)
(* leaves them.                                                            *)
(***************************************************************************)
GapSizes == {"sufficient", "lacking", "severe"}

GapSizeLists == UNION {[1..n -> GapSizes] : n \in 0..MaxGaps}

GapsOf(sizes, as_dict) ==
    [i \in 1..Len(sizes) |->
        [is_dict |-> as_dict, skill_area |-> "area " \o ToString(i),
         gap_size |-> sizes[i]]]

\* asdict(InternalMatchResult) has no our_advantages / our_disadvantages key;
\* a caller's own dict can carry them
SynthesisMatches ==
    LET gaps == {GapsOf(sizes, FALSE) : sizes \in GapSizeLists}
                \cup {GapsOf(<<"severe">>, TRUE)}
    IN  {[overall_readiness |-> r, confidence_score |-> RInt(1), skill_gaps |-> g] :
            r \in {"high", "low"}, g \in gaps}
        \cup {[overall_readiness |-> "high", confidence_score |-> RInt(1),
               skill_gaps |-> g, our_advantages |-> <<"own advantage">>,
               our_disadvantages |-> <<"own disadvantage 1", "own disadvantage 2">>] :
                 g \in gaps}
        \cup {[overall_readiness |-> "medium", confidence_score |-> RInt(1),
               skill_gaps |-> g, our_advantages |-> <<>>,
               our_disadvantages |-> <<"own disadvantage 1", "own disadvantage 2">>] :
                 g \in gaps}

SynthesisRfps ==
    {[requirements |-> <<>>, evaluation_criteria |-> CriteriaOf(ws, TRUE),
      risk_flags |-> RiskFlagsOf(ks, as_dict)] :
        ws \in {<<>>, <<R(1, 2), R(1, 2)>>}, ks \in ExtractedRisks,
        as_dict \in BOOLEAN}

SynthesisAnalyses ==
    {[competitor_profiles |-> <<>>, our_advantages |-> <<>>, our_disadvantages |-> <<>>,
      differentiation_points |-> <<>>],
     analyze_competitors(<<>>, <<>>)}

\* the two keys of asdict(WinProbabilityResult) that synthesize_strategy reads
SynthesisWinProbabilities ==
    {[create_default_result EXCEPT !.overall_difficulty = difficulty_of(p),
                                   !.win_probability = p] :
        p \in {R(3, 10), R(1, 2), R(6, 10), R(61, 100), R(7, 10)}}

InitSynthesis ==
    /\ entry = "synthesis"
    /\ pc = "synthesize_call"
    /\ rfp_content = <<>>
    /\ competitors = <<>>
    /\ validation = NoneRec
    /\ rfp_analysis \in SynthesisRfps
    /\ internal_match \in SynthesisMatches
    /\ competitor_analysis \in SynthesisAnalyses
    /\ win_probability \in SynthesisWinProbabilities
    /\ strategy_synthesis = NoneRec
    /\ result = NoneRec
    /\ stages = <<>>
    /\ errors = <<>>
    /\ report = NoneRec
    /\ run_state = <<>>
    /\ heap = <<>>

CallSynthesizeStrategy ==
    /\ pc = "synthesize_call"
    /\ strategy_synthesis' = synthesize_strategy(rfp_analysis, internal_match,
                                                 competitor_analysis, win_probability)
    /\ errors' = IF synthesis_raises(rfp_analysis, internal_match,
                                     competitor_analysis, win_probability)
                 THEN Append(errors, "synthesis failed") ELSE errors
    /\ stages' = Append(stages, "synthesis")
    /\ pc' = "synthesize_returned"
    /\ UNCHANGED <<report, run_state, heap>>
    /\ UNCHANGED <<entry, rfp_content, competitors, validation, rfp_analysis,
                   internal_match, competitor_analysis, win_probability, result>>

NextSynthesis == CallSynthesizeStrategy

SpecSynthesis == InitSynthesis /\ [][NextSynthesis]_vars

(***************************************************************************)
(* Several calls of run_full_analysis on one orchestrator, their steps     *)
(* interleaved in any order.  This view of a run keeps the objects only:   *)
(* which objects each step creates, and which objects they refer to.       *)
(***************************************************************************)
RunIds == 1..MaxRuns

RunName(r) == "run " \o ToString(r)

RunObject(r, of, part) == Object(RunName(r), of, part)

\* the list the caller passes as competitors
CallerList(r) == Object("caller", RunName(r), "competitors")

RunCompetitorInputs ==
    {<<>>, Some(<<"Samsung SDS">>), Some(<<"Samsung SDS", "LG CNS">>),
     Some(<<"Other Co">>)}

\* _create_competitor_profile: portfolio, win_history, opportunities and
\* threats are lists built in the call; tech_stack, partnerships, strengths
\* and weaknesses are the lists of competitor_data themselves
ProfileFreshLists == {"portfolio", "win_history", "opportunities", "threats"}
ProfileDbLists == {"tech_stack", "partnerships", "strengths", "weaknesses"}

profile_references(r, name) ==
    {RunObject(r, name, field) : field \in ProfileFreshLists}
    \cup {DbObject(name, field) : field \in ProfileDbLists}

\* new objects; the heap keeps the number of elements for the reference
\* objects only
Allocate(objects, refs_of(_)) == [o \in objects |-> [refs |-> refs_of(o)]]

NoRefs(o) == {}

RunAt(r, position) == run_state[r].pc = position

RunGoes(r, position) == run_state' = [run_state EXCEPT ![r].pc = position]

InitRuns ==
    /\ pc = "runs"
    /\ entry = "runs"
    /\ rfp_content = <<>>
    /\ competitors = <<>>
    /\ validation = NoneRec
    /\ rfp_analysis = NoneRec
    /\ internal_match = NoneRec
    /\ competitor_analysis = NoneRec
    /\ win_probability = NoneRec
    /\ strategy_synthesis = NoneRec
    /\ result = NoneRec
    /\ stages = <<>>
    /\ errors = <<>>
    /\ report = NoneRec
    /\ \E args \in [RunIds -> RunCompetitorInputs] :
          /\ run_state = [r \in RunIds |->
                 [pc |-> "run_start",
                  names |-> IF IsNone(args[r]) THEN <<>> ELSE args[r][1],
                  competitors |-> IF IsNone(args[r]) THEN {} ELSE {CallerList(r)},
                  result |-> {}]]
          /\ heap = ReferenceHeap
                    @@ Allocate({CallerList(r) : r \in {q \in RunIds : ~IsNone(args[q])}},
                                NoRefs)

\* "competitors = self.default_competitors" and stage 1
RunExtract(r) ==
    /\ RunAt(r, "run_start")
    /\ run_state' = [run_state EXCEPT
           ![r].pc = "extracted",
           ![r].names = IF run_state[r].competitors = {} THEN default_competitors
                        ELSE @,
           ![r].competitors = IF @ = {} THEN {DefaultCompetitorsObject} ELSE @]
    /\ heap' = heap @@ Allocate({RunObject(r, "rfp_analysis", "result")}, NoRefs)
    /\ UNCHANGED pipeline_vars

RunMatch(r) ==
    /\ RunAt(r, "extracted")
    /\ RunGoes(r, "matched")
    /\ heap' = heap @@ Allocate({RunObject(r, "internal_match", "result")}, NoRefs)
    /\ UNCHANGED pipeline_vars

\* stage 3: one profile per competitor of the database, and the analysis that
\* holds the profiles
RunCompete(r) ==
    /\ RunAt(r, "matched")
    /\ RunGoes(r, "competed")
    /\ LET known == Range(SelectSeq(run_state[r].names, InDatabase))
           profiles == {RunObject(r, name, "profile") : name \in known}
           fresh == {RunObject(r, name, field) : name \in known,
                                                field \in ProfileFreshLists}
           ProfileRefs(o) == profile_references(r, o.of)
           AnalysisRefs(o) == profiles
       IN  heap' = heap @@ Allocate(fresh, NoRefs) @@ Allocate(profiles, ProfileRefs)
                        @@ Allocate({RunObject(r, "competitor_analysis", "result")},
                                    AnalysisRefs)
    /\ UNCHANGED pipeline_vars

\* stage 4: the arguments are asdict copies, which the call does not keep
RunScore(r) ==
    /\ RunAt(r, "competed")
    /\ RunGoes(r, "scored")
    /\ heap' = heap @@ Allocate({RunObject(r, "win_probability", "result")}, NoRefs)
    /\ UNCHANGED pipeline_vars

RunSynthesize(r) ==
    /\ RunAt(r, "scored")
    /\ RunGoes(r, "synthesized")
    /\ heap' = heap @@ Allocate({RunObject(r, "strategy_synthesis", "result")}, NoRefs)
    /\ UNCHANGED pipeline_vars

\* the AnalysisPipelineResult of the five stage outputs
RunFinish(r) ==
    /\ RunAt(r, "synthesized")
    /\ LET ResultRefs(o) ==
               {RunObject(r, stage, "result") :
                    stage \in {"rfp_analysis", "internal_match", "competitor_analysis",
                               "win_probability", "strategy_synthesis"}}
       IN  heap' = heap @@ Allocate({RunObject(r, "pipeline", "result")}, ResultRefs)
    /\ run_state' = [run_state EXCEPT ![r].pc = "done",
                                      ![r].result = {RunObject(r, "pipeline", "result")}]
    /\ UNCHANGED pipeline_vars

\* the except clause: _create_error_result builds a result of new objects
RunPipelineError(r) ==
    /\ run_state[r].pc \in RunningPcs
    /\ heap' = heap @@ Allocate({RunObject(r, "pipeline", "error result")}, NoRefs)
    /\ run_state' = [run_state EXCEPT ![r].pc = "failed",
                                      ![r].result = {RunObject(r, "pipeline", "error result")}]
    /\ UNCHANGED pipeline_vars

NextRuns ==
    \E r \in RunIds :
        \/ RunExtract(r)
        \/ RunMatch(r)
        \/ RunCompete(r)
        \/ RunScore(r)
        \/ RunSynthesize(r)
        \/ RunFinish(r)
        \/ RunPipelineError(r)

SpecRuns == InitRuns /\ [][NextRuns]_vars

(***************************************************************************)
(* Properties.                                                             *)
(***************************************************************************)
Returned == pc = "score_returned"

InUnit(x) == RLe(RInt(0), x) /\ RLe(x, RInt(1))

HighCount(risk_factors) ==
    Cardinality({i \in 1..Len(risk_factors) : risk_factors[i].severity = "high"})

\* C1: every result of calculate_win_probability has 0 <= win_probability <= 1
\* and 0 <= confidence_level <= 1, and the risk adjustment of the call's risk
\* flags lies in [0, 0.3].
C1_ProbabilityBounds ==
    Returned =>
        /\ InUnit(win_probability.win_probability)
        /\ InUnit(win_probability.confidence_level)
        /\ LET ra == calculate_risk_adjustment(
                         analyze_risk_factors(rfp_analysis.risk_flags))
           IN  RLe(RInt(0), ra) /\ RLe(ra, R(3, 10))

\* a computed result whose probability was clamped to 0 and whose risk
\* adjustment was capped at 0.3
C1_Witness ==
    /\ Returned
    /\ errors = <<>>
    /\ win_probability.win_probability = RInt(0)
    /\ win_probability.evaluation_scores # <<>>
    /\ calculate_risk_adjustment_uncapped(win_probability.risk_factors) = R(48, 100)

\* C2: the difficulty tier is low iff win_probability >= 0.7, medium iff
\* 0.4 <= win_probability < 0.7 and high iff win_probability < 0.4.
C2_DifficultyBoundaries ==
    Returned =>
        LET p == win_probability.win_probability
            d == win_probability.overall_difficulty
        IN  /\ (d = "low") <=> RLe(R(7, 10), p)
            /\ (d = "medium") <=> (RLe(R(4, 10), p) /\ RLt(p, R(7, 10)))
            /\ (d = "high") <=> RLt(p, R(4, 10))

\* a computed win probability of exactly 0.7, classified low
C2_Witness ==
    /\ Returned
    /\ errors = <<>>
    /\ win_probability.win_probability = R(7, 10)
    /\ win_probability.overall_difficulty = "low"

\* the formula of the claim, from the fields of the returned record
ClaimedProbability(scores, risk_factors) ==
    LET T == RSum([i \in 1..Len(scores) |-> scores[i].weighted_score])
        mean == IF risk_factors = <<>> THEN RInt(0)
                ELSE RDivInt(RSum([i \in 1..Len(risk_factors) |->
                                 RMul(risk_factors[i].impact,
                                      risk_factors[i].probability)]),
                             Len(risk_factors))
        ra == IF RLt(R(3, 10), mean) THEN R(3, 10) ELSE mean
        raw == RSub(RDivInt(RAdd(RMul(T, RSub(RInt(1), ra)), RInt(1)), 2),
                    R(HighCount(risk_factors), 10))
    IN  IF RLt(raw, RInt(0)) THEN RInt(0)
        ELSE IF RLt(RInt(1), raw) THEN RInt(1) ELSE raw

ExampleCall ==
    /\ rfp_analysis.evaluation_criteria = CriteriaOf(<<R(1, 5), R(3, 10), R(1, 2)>>, TRUE)
    /\ rfp_analysis.risk_flags = <<>>
    /\ internal_match.overall_readiness = "medium"
    /\ internal_match.confidence_score = RInt(1)
    /\ competitor_analysis.competitor_profiles = <<>>

\* C3: for a non-empty criteria list, win_probability =
\* clamp((T * (1 - ra) + 1) / 2 - 0.1 * H, 0, 1); the three criteria 0.2, 0.3,
\* 0.5 with our_score 0.6, competitor score 0.5 and no risk give 0.55, medium.
C3_WinProbabilityFormula ==
    (Returned /\ rfp_analysis.evaluation_criteria # <<>>) =>
        /\ win_probability.win_probability =
               ClaimedProbability(win_probability.evaluation_scores,
                                  win_probability.risk_factors)
        /\ ~scoring_raises(rfp_analysis.evaluation_criteria, internal_match,
                           competitor_analysis, rfp_analysis.risk_flags) =>
               /\ Len(win_probability.evaluation_scores) =
                      Len(rfp_analysis.evaluation_criteria)
               /\ Len(win_probability.risk_factors) = Len(rfp_analysis.risk_flags)
        /\ ExampleCall =>
               /\ \A i \in 1..3 :
                     /\ win_probability.evaluation_scores[i].our_score = R(6, 10)
                     /\ win_probability.evaluation_scores[i].competitor_avg_score
                            = R(5, 10)
               /\ win_probability.win_probability = R(55, 100)
               /\ win_probability.overall_difficulty = "medium"

\* a computed result with risk factors whose mean risk exceeds the cap and
\* with a high-severity penalty, not clamped
C3_Witness ==
    /\ Returned
    /\ errors = <<>>
    /\ HighCount(win_probability.risk_factors) = 1
    /\ Len(win_probability.risk_factors) = 2
    /\ RLt(R(3, 10), calculate_risk_adjustment_uncapped(win_probability.risk_factors))
    /\ RLt(RInt(0), win_probability.win_probability)
    /\ RLt(win_probability.win_probability, R(1, 2))

\* C4: no criteria and no risk flags: the call returns a well-formed result
\* with win_probability 0.5, difficulty medium and empty score and risk lists.
C4_EmptyInputDefault ==
    (Returned /\ rfp_analysis.evaluation_criteria = <<>>
              /\ rfp_analysis.risk_flags = <<>>) =>
        /\ DOMAIN win_probability =
               {"overall_difficulty", "win_probability", "evaluation_scores",
                "risk_factors", "key_drivers", "confidence_level"}
        /\ win_probability.win_probability = R(1, 2)
        /\ win_probability.overall_difficulty = "medium"
        /\ win_probability.evaluation_scores = <<>>
        /\ win_probability.risk_factors = <<>>

\* the call with no criteria and no risk flags has returned
C4_Witness ==
    /\ Returned
    /\ rfp_analysis.evaluation_criteria = <<>>
    /\ rfp_analysis.risk_flags = <<>>
    /\ win_probability.win_probability = R(1, 2)

\* C5: no criteria and one high-severity risk flag: the result has
\* win_probability = 0.5 - 0.1 = 0.4 and its risk_factors list holds that one
\* risk factor.
C5_SingleHighRisk ==
    (Returned /\ rfp_analysis.evaluation_criteria = <<>>
              /\ Len(rfp_analysis.risk_flags) = 1
              /\ rfp_analysis.risk_flags[1].severity = "high") =>
        /\ win_probability.win_probability = R(4, 10)
        /\ Len(win_probability.risk_factors) = 1

StageFailed == {"scoring failed", "synthesis failed"} \cap Range(errors) # {}

IsAllDefault(r) ==
    /\ r.rfp_analysis.requirements = <<>>
    /\ r.rfp_analysis.evaluation_criteria = <<>>
    /\ r.rfp_analysis.risk_flags = <<>>
    /\ r.internal_match.skill_gaps = <<>>
    /\ r.internal_match.overall_readiness = "low"
    /\ r.internal_match.confidence_score = RInt(0)
    /\ r.competitor_analysis.competitor_profiles = <<>>
    /\ r.competitor_analysis.our_advantages = <<>>
    /\ r.competitor_analysis.our_disadvantages = <<>>
    /\ r.win_probability.overall_difficulty = "medium"
    /\ r.win_probability.win_probability = R(1, 2)
    /\ r.win_probability.evaluation_scores = <<>>
    /\ r.win_probability.risk_factors = <<>>
    /\ r.win_probability.key_drivers = <<>>
    /\ r.strategy_synthesis.improvement_actions = <<>>
    /\ r.strategy_synthesis.strategic_recommendations = <<>>
    /\ r.strategy_synthesis.success_factors = <<>>

\* C6: when the scoring engine or the synthesizer met an internal failure in
\* the run, the returned result is the all-default result, never a mix of
\* computed stage outputs and defaults.
C6_AllDefaultOnFailure ==
    (result # NoneRec /\ StageFailed) => IsAllDefault(result)

\* C7: once the scoring engine has failed, the synthesizer is not run and the
\* run does not reach Done.
C7_FailedIsTerminal ==
    "scoring failed" \in Range(errors) =>
        /\ "synthesis" \notin Range(stages)
        /\ pc # "done"

\* C8: every returned result, the error result included, has its
\* win-probability record, its synthesis and the four SWOT lists present.
C8_NoNullComponent ==
    result # NoneRec =>
        /\ result.win_probability # NoneRec
        /\ result.strategy_synthesis # NoneRec
        /\ {"strengths", "weaknesses", "opportunities", "threats"}
               \subseteq DOMAIN result.strategy_synthesis.company_swot

\* the length of a text without its leading and trailing blanks, counted
\* from the positions of its first and last non-blank character
TrimmedLength(text) ==
    LET solid == {i \in 1..Len(text) : text[i] # " "}
    IN  IF solid = {} THEN 0
        ELSE (CHOOSE i \in solid : \A j \in solid : j <= i)
             - (CHOOSE i \in solid : \A j \in solid : i <= j) + 1

\* C9: validate_inputs reports is_valid false, with an error, exactly when
\* the trimmed RFP content has fewer than 100 characters, whatever the
\* competitor list.
C9_ValidationThreshold ==
    validation # NoneRec =>
        /\ validation.is_valid <=> TrimmedLength(rfp_content) >= 100
        /\ validation.is_valid <=> validation.errors = <<>>

\* validate_inputs has rejected a text of 99 characters that is 100 or more
\* characters long with its surrounding blanks, given more than 10 competitors
C9_Witness ==
    /\ pc = "validate_returned"
    /\ TrimmedLength(rfp_content) = 99
    /\ Len(rfp_content) >= 100
    /\ Len(competitors[1]) > 10
    /\ ~validation.is_valid

\* C10: with fewer than 100 characters after trimming no pipeline stage
\* executes and no result is produced, however the run was started.
C10_NoStageOnShortInput ==
    TrimmedLength(rfp_content) < 100 =>
        /\ stages = <<>>
        /\ pc \notin {"extracted", "matched", "competed", "scored", "synthesized",
                      "done"}

\* the stages of run_full_analysis, in the order of its calls
StageOrder == <<"extraction", "matching", "competitor analysis", "scoring", "synthesis">>

StageRan(stage) == stage \in Range(stages)

\* C11: with more than 10 competitors validate_inputs does not reject the
\* input (is_valid depends on the text alone) and adds a warning, and the
\* competitor-analysis stage receives at most 10 competitors.
C11_OversizedListTruncated ==
    /\ (validation # NoneRec /\ Len(competitors[1]) > 10) =>
           /\ validation.is_valid <=> TrimmedLength(rfp_content) >= 100
           /\ "too many competitors" \in Range(validation.warnings)
    /\ StageRan("competitor analysis") => Len(competitors[1]) <= 10

\* C12: with an empty or a missing competitor list validate_inputs returns
\* (is_valid depending on the text alone) with a warning, and the
\* competitor-analysis stage receives the default list.  After stage 1 the
\* variable competitors is the list run_full_analysis works with: it is empty
\* exactly when the caller passed an empty list and nothing was substituted.
C12_EmptyListDefaulted ==
    /\ (entry = "validate" /\ pc # "validate_call"
           /\ (IsNone(competitors) \/ competitors[1] = <<>>)) =>
           /\ pc = "validate_returned"
           /\ validation.is_valid <=> TrimmedLength(rfp_content) >= 100
           /\ "competitor list empty" \in Range(validation.warnings)
    /\ StageRan("competitor analysis") => competitors[1] # <<>>

\* C13: the stages executed in a run are a prefix of extraction, matching,
\* competitor analysis, scoring, synthesis (fixed order, each at most once,
\* none repeated after a failure), and a stage has run only when the output
\* of its predecessor is there.
C13_StagesInOrder ==
    /\ stages = Prefix(StageOrder, Len(stages))
    /\ StageRan("matching") => rfp_analysis # NoneRec
    /\ StageRan("competitor analysis") => internal_match # NoneRec
    /\ StageRan("scoring") => competitor_analysis # NoneRec
    /\ StageRan("synthesis") => win_probability # NoneRec

\* a run that went through all five stages once although scoring and
\* synthesis both failed on the way
C13_Witness ==
    /\ pc = "done"
    /\ stages = StageOrder
    /\ errors = <<"scoring failed", "synthesis failed">>

\* the scores of the claim, from the readiness tier and confidence of the
\* internal match and the strength / weakness counts of the profiles
ClaimedOurScore(im) ==
    LET base == CASE im.overall_readiness = "high" -> R(9, 10)
                  [] im.overall_readiness = "medium" -> R(6, 10)
                  [] im.overall_readiness = "low" -> R(3, 10)
        raw == RMul(base, RAdd(R(1, 2), RMul(R(1, 2), im.confidence_score)))
    IN  IF RLt(raw, RInt(0)) THEN RInt(0)
        ELSE IF RLt(RInt(1), raw) THEN RInt(1) ELSE raw

ClaimedProfileScore(profile) ==
    LET raw == RSub(RAdd(R(1, 2), R(profile.strengths, 10)), R(profile.weaknesses, 20))
    IN  IF RLt(raw, RInt(0)) THEN RInt(0)
        ELSE IF RLt(RInt(1), raw) THEN RInt(1) ELSE raw

ClaimedCompetitorScore(profiles) ==
    IF profiles = <<>> THEN R(1, 2)
    ELSE RDivInt(RSum([i \in 1..Len(profiles) |-> ClaimedProfileScore(profiles[i])]),
                 Len(profiles))

\* C16: after the scoring stage of a pipeline run there is one score per
\* criterion of the run's RFP analysis, with our_score, competitor score,
\* difference and weighted score as the formulas give them from the run's
\* internal match and competitor profiles, for any number of profiles.
C16_PipelineEvaluationScores ==
    StageRan("scoring") =>
        LET criteria == rfp_analysis.evaluation_criteria
            scores == win_probability.evaluation_scores
            ours == ClaimedOurScore(internal_match)
            theirs == ClaimedCompetitorScore(competitor_analysis.competitor_profiles)
        IN  /\ Len(scores) = Len(criteria)
            /\ \A i \in 1..Len(scores) :
                  /\ scores[i].our_score = ours
                  /\ scores[i].competitor_avg_score = theirs
                  /\ scores[i].score_difference = RSub(ours, theirs)
                  /\ scores[i].weighted_score =
                         RMul(RSub(ours, theirs), criteria[i].weight)

ClaimedImpact(severity) ==
    CASE severity = "high" -> R(8, 10)
      [] severity = "medium" -> R(5, 10)
      [] severity = "low" -> R(2, 10)

ClaimedRiskProbability(category) ==
    IF category = "contradiction" THEN R(3, 10)
    ELSE IF category = "ambiguity" THEN R(6, 10)
    ELSE IF category = "legal" THEN R(2, 10)
    ELSE IF category = "security" THEN R(4, 10)
    ELSE IF category = "licensing" THEN R(3, 10)
    ELSE R(4, 10)

\* C17: the risk factors of a computed result are the risk flags of the call
\* one for one and in the same order, each with the impact of its severity
\* (0.8 / 0.5 / 0.2) and the probability of its category (0.3 / 0.6 / 0.2 /
\* 0.4 / 0.3, and 0.4 for any other category).
C17_RiskFactorMapping ==
    Returned =>
        LET flags == rfp_analysis.risk_flags
            factors == win_probability.risk_factors
        IN  /\ Len(factors) = Len(flags)
            /\ \A i \in 1..Len(factors) :
                  /\ factors[i].risk_type = flags[i].risk_type
                  /\ factors[i].severity = flags[i].severity
                  /\ factors[i].impact = ClaimedImpact(flags[i].severity)
                  /\ factors[i].probability = ClaimedRiskProbability(flags[i].risk_type)

\* two flags of different categories and severities, one of a category
\* outside the table, mapped in order
C17_Witness ==
    /\ Returned
    /\ Len(rfp_analysis.risk_flags) = 2
    /\ rfp_analysis.risk_flags[1].risk_type = "legal"
    /\ rfp_analysis.risk_flags[1].severity = "low"
    /\ rfp_analysis.risk_flags[2].risk_type = "other"
    /\ rfp_analysis.risk_flags[2].severity = "high"
    /\ win_probability.risk_factors[1].probability = R(2, 10)
    /\ win_probability.risk_factors[1].impact = R(2, 10)
    /\ win_probability.risk_factors[2].probability = R(4, 10)
    /\ win_probability.risk_factors[2].impact = R(8, 10)

\* C18: for n criteria and r risk flags the confidence_level of the returned
\* result is (min(1, n / 5) + max(0.3, 1 - 0.1 * r)) / 2, for every n >= 0
\* and r >= 0.
C18_ConfidenceFormula ==
    Returned =>
        LET n == Len(rfp_analysis.evaluation_criteria)
            r == Len(rfp_analysis.risk_flags)
            by_criteria == IF n >= 5 THEN RInt(1) ELSE R(n, 5)
            by_risks == IF r >= 7 THEN R(3, 10) ELSE R(10 - r, 10)
        IN  win_probability.confidence_level = RDivInt(RAdd(by_criteria, by_risks), 2)

FillerDrivers ==
    <<[kind |-> "general", of |-> "technical capability"],
      [kind |-> "general", of |-> "project management"],
      [kind |-> "general", of |-> "price competitiveness"]>>

\* C19: the key_drivers of a computed result start with a criterion whose
\* weighted score has the largest magnitude, labelled advantage when that
\* score is positive and disadvantage when it is negative; next comes the
\* category of the first high-severity risk factor when there is one; the
\* three filler drivers follow; the list has at most 5 entries.
C19_KeyDrivers ==
    (Returned /\ errors = <<>>) =>
        LET scores == win_probability.evaluation_scores
            factors == win_probability.risk_factors
            drivers == win_probability.key_drivers
            high == {i \in 1..Len(factors) : factors[i].severity = "high"}
            rest == IF high = {} THEN 2 ELSE 3
        IN  /\ drivers # <<>>
            /\ Len(drivers) <= 5
            /\ \E i \in 1..Len(scores) :
                  /\ drivers[1].of = scores[i].criteria
                  /\ \A j \in 1..Len(scores) :
                        RLe(RAbs(scores[j].weighted_score), RAbs(scores[i].weighted_score))
                  /\ RLt(RInt(0), scores[i].weighted_score) => drivers[1].kind = "advantage"
                  /\ RLt(scores[i].weighted_score, RInt(0)) =>
                        drivers[1].kind = "disadvantage"
            /\ high # {} =>
                  drivers[2] = [kind |-> "risk",
                                of |-> factors[CHOOSE i \in high :
                                                   \A j \in high : i <= j].risk_type]
            /\ SubSeq(drivers, rest, Len(drivers)) = FillerDrivers

\* a computed result whose top criterion is not the first one and is a
\* disadvantage, and whose first high-severity risk factor is the second one
C19_Witness ==
    /\ Returned
    /\ errors = <<>>
    /\ Len(win_probability.evaluation_scores) >= 2
    /\ win_probability.key_drivers[1] =
           [kind |-> "disadvantage", of |-> win_probability.evaluation_scores[2].criteria]
    /\ Len(win_probability.risk_factors) = 2
    /\ win_probability.risk_factors[1].severity # "high"
    /\ win_probability.key_drivers[2] =
           [kind |-> "risk", of |-> win_probability.risk_factors[2].risk_type]
    /\ Len(win_probability.key_drivers) = 5

ClaimedGapAction(gap) ==
    IF gap.gap_size = "severe"
    THEN <<[action_type |-> "internal-reinforcement", priority |-> "high"]>>
    ELSE IF gap.gap_size = "lacking"
    THEN <<[action_type |-> "external-partnership", priority |-> "medium"]>>
    ELSE <<>>

ClaimedRiskAction(risk) ==
    IF risk.severity = "high"
    THEN <<[action_type |-> "spec-clarification", priority |-> "high"]>>
    ELSE <<>>

TypeAndPriority(actions) ==
    [i \in 1..Len(actions) |->
        [action_type |-> actions[i].action_type, priority |-> actions[i].priority]]

\* C20: after the synthesis stage of a pipeline run the improvement actions
\* are the first 8 of: one action per skill gap of the run's internal match
\* (severe: internal-reinforcement / high, lacking: external-partnership /
\* medium), one spec-clarification / high action per high-severity risk flag
\* of the run's RFP analysis, then the two generic actions.
C20_PipelineImprovementActions ==
    StageRan("synthesis") =>
        TypeAndPriority(strategy_synthesis.improvement_actions) =
            Prefix(FlatMap(ClaimedGapAction, internal_match.skill_gaps)
                   \o FlatMap(ClaimedRiskAction, rfp_analysis.risk_flags)
                   \o TypeAndPriority(generic_actions), 8)

\* C15: the text returned by export_analysis_report, parsed back, gives the
\* field values of the exported result: in "json" mode the whole result tree,
\* in "summary" mode the difficulty, the win probability, the readiness and
\* the four counts of the result.
C15_ExportRoundTrip ==
    report # NoneRec =>
        /\ report.format = "json" => json_loads(report.text) = asdict_result(result)
        /\ report.format = "summary" =>
               LET summary == json_loads(report.text)
               IN  /\ summary.difficulty = result.win_probability.overall_difficulty
                   /\ ParsePercent(summary.win_probability.percent_text) =
                          result.win_probability.win_probability
                   /\ summary.overall_readiness = result.internal_match.overall_readiness
                   /\ summary.requirements = Len(result.rfp_analysis.requirements)
                   /\ summary.competitors =
                          Len(result.competitor_analysis.competitor_profiles)
                   /\ summary.risks = Len(result.rfp_analysis.risk_flags)
                   /\ summary.improvement_actions =
                          Len(result.strategy_synthesis.improvement_actions)

\* the objects reachable from a set of objects (a result refers to its stage
\* outputs, an analysis to its profiles, a profile to its lists)
Refs(objects) == objects \cup UNION {heap[o].refs : o \in objects}

Reach(objects) == Refs(Refs(Refs(objects)))

\* what a run can reach: the objects it created, the competitor list it works
\* with, and what those refer to
RunReach(r) ==
    Reach({o \in DOMAIN heap : o.owner = RunName(r)} \cup run_state[r].competitors)

ResultReach(r) == Reach(run_state[r].result)

\* C14: for runs interleaved in any order, the results of two runs share no
\* mutable object; an object that two runs can reach is one of the reference
\* objects (competitor database, default competitor list); and the reference
\* objects stay as they were built.
C14_RunsIsolated ==
    /\ \A r1 \in RunIds : \A r2 \in RunIds \ {r1} :
           /\ ResultReach(r1) \cap ResultReach(r2) = {}
           /\ RunReach(r1) \cap RunReach(r2) \subseteq ReferenceObjects
    /\ \A o \in ReferenceObjects : heap[o] = ReferenceHeap[o]

Synthesized == pc = "synthesize_returned"

ClaimedMessageSet(difficulty) ==
    CASE difficulty = "high" ->
             <<"risk-averse: careful approach", "risk-averse: risk management",
               "risk-averse: strengthen differentiation">>
      [] difficulty = "medium" ->
             <<"balanced: balanced approach", "balanced: core requirements",
               "balanced: price competitiveness">>
      [] difficulty = "low" ->
             <<"aggressive: use strengths", "aggressive: fast decisions",
               "aggressive: customer relationship">>

\* C21: the recommendations of a computed synthesis are the three messages of
\* the difficulty tier (high: risk-averse, medium: balanced, low:
\* aggressive), then "invest to cover weaknesses" exactly when the SWOT
\* weaknesses outnumber the SWOT strengths, then "execute high-priority
\* actions now" exactly when an improvement action has priority high; the
\* list has 3 to 5 entries.
C21_Recommendations ==
    (Synthesized /\ errors = <<>>) =>
        LET recs == strategy_synthesis.strategic_recommendations
            swot == strategy_synthesis.company_swot
            actions == strategy_synthesis.improvement_actions
            outnumber == Len(swot.weaknesses) > Len(swot.strengths)
            urgent == \E i \in 1..Len(actions) : actions[i].priority = "high"
            extras == (IF outnumber THEN <<"invest to cover weaknesses">> ELSE <<>>)
                      \o (IF urgent THEN <<"execute high-priority actions now">>
                          ELSE <<>>)
        IN  /\ Len(recs) >= 3
            /\ Len(recs) <= 5
            /\ recs = ClaimedMessageSet(win_probability.overall_difficulty) \o extras

\* a synthesis of five recommendations for a high-difficulty bid: four
\* weaknesses against three strengths and a high-priority action
C21_Witness ==
    /\ Synthesized
    /\ errors = <<>>
    /\ win_probability.overall_difficulty = "high"
    /\ Len(strategy_synthesis.company_swot.weaknesses) = 4
    /\ Len(strategy_synthesis.company_swot.strengths) = 3
    /\ Len(strategy_synthesis.strategic_recommendations) = 5

GenericFactors ==
    <<"clear requirement understanding", "effective project management",
      "close customer cooperation", "technical excellence", "competitive proposal">>

\* C22: the success factors of a computed synthesis are the first 7 of: the
\* readiness entry iff the readiness tier is high, the advantage entry iff the
\* competitor analysis lists an advantage, the probability entry iff
\* win_probability > 0.6 strictly, then the five generic factors; with all
\* three entries the last generic factor is cut.
C22_SuccessFactors ==
    (Synthesized /\ errors = <<>>) =>
        LET factors == strategy_synthesis.success_factors
            ready == internal_match.overall_readiness = "high"
            ahead == competitor_analysis.our_advantages # <<>>
            likely == RLt(R(6, 10), win_probability.win_probability)
            all == (IF ready THEN <<"high internal readiness">> ELSE <<>>)
                   \o (IF ahead THEN <<"competitive advantage">> ELSE <<>>)
                   \o (IF likely THEN <<"high win probability">> ELSE <<>>)
                   \o GenericFactors
        IN  /\ factors = SubSeq(all, 1, IF Len(all) > 7 THEN 7 ELSE Len(all))
            /\ win_probability.win_probability = R(6, 10) =>
                  "high win probability" \notin Range(factors)
            /\ (ready /\ ahead /\ likely) =>
                  /\ Len(factors) = 7
                  /\ factors[7] = "technical excellence"

\* a synthesis whose three conditional entries are all present, so that the
\* cut at 7 removes the last generic factor
C22_Witness ==
    /\ Synthesized
    /\ errors = <<>>
    /\ SubSeq(strategy_synthesis.success_factors, 1, 3) =
           <<"high internal readiness", "competitive advantage", "high win probability">>
    /\ "competitive proposal" \notin Range(strategy_synthesis.success_factors)

\* C23: the SWOT opportunities and threats returned by synthesize_strategy
\* are the same for every input.  Calls with no skill gap and no risk flag
\* return the three fixed opportunities and the three fixed threats, so any
\* two calls agree exactly when every call returns these lists.
C23_FixedOpportunitiesThreats ==
    Synthesized =>
        /\ strategy_synthesis.company_swot.opportunities =
               <<"digital transformation market", "AI/cloud demand", "SME market entry">>
        /\ strategy_synthesis.company_swot.threats =
               <<"large-company competition", "pace of technology change",
                 "price pressure">>

GenericStrengths ==
    <<"fast decision-making structure", "flexible project management",
      "innovative technology">>

IsShortfall(gap) == gap.gap_size # "sufficient"

\* C24: in a computed synthesis the SWOT strengths are the advantages that the
\* competitor analysis precomputed followed by the three generic strengths,
\* and the SWOT weaknesses are the disadvantages that the competitor analysis
\* precomputed followed by one entry per skill gap that is lacking or severe,
\* in gap order.
C24_SwotMerge ==
    (Synthesized /\ errors = <<>>) =>
        LET swot == strategy_synthesis.company_swot
            shortfalls == SelectSeq(internal_match.skill_gaps, IsShortfall)
        IN  /\ swot.strengths = competitor_analysis.our_advantages \o GenericStrengths
            /\ swot.weaknesses =
                   competitor_analysis.our_disadvantages
                   \o [i \in 1..Len(shortfalls) |-> shortfalls[i].skill_area]

\* C25: once calculate_win_probability has returned, no later step of the run
\* (synthesis, execution summary, return, export) changes the
\* WinProbabilityResult or anything inside it; once synthesize_strategy has
\* returned no later step changes the StrategySynthesis; the result of a
\* completed run carries both as they were returned, and an export leaves
\* the result as it was.
C25_DerivedValuesNeverMutated ==
    [][/\ win_probability # NoneRec => win_probability' = win_probability
       /\ strategy_synthesis # NoneRec => strategy_synthesis' = strategy_synthesis
       /\ result # NoneRec => result' = result
       /\ pc' = "done" =>
              /\ result'.win_probability = win_probability
              /\ result'.strategy_synthesis = strategy_synthesis]_vars

\* a completed run with computed evaluation scores and a computed synthesis,
\* after its report was exported
C25_Witness ==
    /\ pc = "done"
    /\ report # NoneRec
    /\ win_probability.evaluation_scores # <<>>
    /\ win_probability.key_drivers # <<>>
    /\ strategy_synthesis.strategic_recommendations # <<>>
    /\ result.win_probability = win_probability
    /\ result.strategy_synthesis = strategy_synthesis

\* C26: for the criteria, internal match and competitor profiles of a call,
\* the same call with one more risk flag appended (any category, any
\* severity) does not return a larger win_probability.
C26_RiskNeverHelps ==
    Returned =>
        \A kind \in AllRiskFlagKinds :
            LET more == rfp_analysis.risk_flags \o RiskFlagsOf(<<kind>>, TRUE)
                with_more == calculate_win_probability(rfp_analysis.evaluation_criteria,
                                 internal_match, competitor_analysis, more)
            IN  RLe(with_more.win_probability, win_probability.win_probability)

\* the scores of one call agree in our_score, competitor score and
\* difference, and their weighted scores add up to difference * sum of weights
UniformScores(scores) ==
    /\ \A i \in 1..Len(scores) :
          /\ scores[i].our_score = scores[1].our_score
          /\ scores[i].competitor_avg_score = scores[1].competitor_avg_score
          /\ scores[i].score_difference = scores[1].score_difference
    /\ RSum([i \in 1..Len(scores) |-> scores[i].weighted_score]) =
           RMul(scores[1].score_difference,
                RSum([i \in 1..Len(scores) |-> scores[i].weight]))

\* the first criterion whose weight no other criterion exceeds
FirstOfMaximalWeight(scores) ==
    CHOOSE i \in 1..Len(scores) :
        /\ \A j \in 1..Len(scores) : RLe(scores[j].weight, scores[i].weight)
        /\ \A j \in 1..(i - 1) : RLt(scores[j].weight, scores[i].weight)

\* C27, as claimed: in a computed result every evaluation score carries the
\* same our_score, competitor score and difference, the total is
\* difference * (sum of the weights), and the first key driver names the
\* first criterion of maximal weight.
C27_UniformScores ==
    (Returned /\ errors = <<>>) =>
        LET scores == win_probability.evaluation_scores
        IN  /\ UniformScores(scores)
            /\ win_probability.key_drivers[1].of =
                   scores[FirstOfMaximalWeight(scores)].criteria

\* C27, amended: as claimed when the difference is not zero; when our score
\* equals the competitor score every weighted score is zero and the first key
\* driver names the first criterion, whatever its weight.
C27_UniformScoresAmended ==
    (Returned /\ errors = <<>>) =>
        LET scores == win_probability.evaluation_scores
            named == win_probability.key_drivers[1].of
        IN  /\ UniformScores(scores)
            /\ IF scores[1].score_difference = RInt(0)
               THEN named = scores[1].criteria
               ELSE named = scores[FirstOfMaximalWeight(scores)].criteria

\* an even match (difference zero) whose first criterion weighs less than its
\* second one and is the one named
C27_Witness ==
    /\ Returned
    /\ errors = <<>>
    /\ Len(win_probability.evaluation_scores) >= 2
    /\ win_probability.evaluation_scores[1].score_difference = RInt(0)
    /\ RLt(win_probability.evaluation_scores[1].weight,
           win_probability.evaluation_scores[2].weight)
    /\ win_probability.key_drivers[1].of = win_probability.evaluation_scores[1].criteria

\* C28: a result that calculate_win_probability computed without an internal
\* failure has 4 or 5 key drivers, at least one evaluation score and
\* confidence_level >= 0.25; the failure default has no key drivers, no
\* evaluation scores and confidence_level 0.
C28_FailureDistinguishable ==
    Returned =>
        IF errors = <<>>
        THEN /\ Len(win_probability.key_drivers) \in {4, 5}
             /\ win_probability.evaluation_scores # <<>>
             /\ RLe(R(1, 4), win_probability.confidence_level)
        ELSE /\ win_probability.key_drivers = <<>>
             /\ win_probability.evaluation_scores = <<>>
             /\ win_probability.confidence_level = RInt(0)

\* the least confident computed result: one criterion and eight risk flags,
\* confidence exactly 0.25, four key drivers
C28_Witness ==
    /\ Returned
    /\ errors = <<>>
    /\ Len(win_probability.evaluation_scores) = 1
    /\ Len(win_probability.risk_factors) = 8
    /\ win_probability.confidence_level = R(1, 4)
    /\ Len(win_probability.key_drivers) = 4

Agrees(wp) ==
    LET p == wp.win_probability
        d == wp.overall_difficulty
    IN  /\ (d = "low") <=> RLe(R(7, 10), p)
        /\ (d = "medium") <=> (RLe(R(4, 10), p) /\ RLt(p, R(7, 10)))
        /\ (d = "high") <=> RLt(p, R(4, 10))

\* C29: in every WinProbabilityResult of a run (the one the scoring stage
\* returned, computed or failure default, and the one inside the result that
\* run_full_analysis returns, error result included) the difficulty is low
\* iff win_probability >= 0.7, medium iff 0.4 <= win_probability < 0.7 and
\* high iff win_probability < 0.4.
C29_DifficultyAgrees ==
    /\ win_probability # NoneRec => Agrees(win_probability)
    /\ result # NoneRec => Agrees(result.win_probability)

\* a run that failed after its scoring stage had computed a result of low
\* difficulty: the returned error result carries the default 0.5 / medium
C29_Witness ==
    /\ pc = "failed"
    /\ win_probability # NoneRec
    /\ win_probability.evaluation_scores # <<>>
    /\ win_probability.overall_difficulty = "low"
    /\ result.win_probability.overall_difficulty = "medium"
    /\ result.win_probability.win_probability = R(1, 2)

\* C30: in every result returned by run_full_analysis whose recommendation
\* list is not empty, the first three recommendations are the message set of
\* the difficulty in that result's win-probability record, and the execution
\* summary reports the difficulty, win_probability and confidence of that
\* record.
C30_ScoringSynthesisConsistent ==
    (result # NoneRec /\ result.strategy_synthesis.strategic_recommendations # <<>>) =>
        LET wp == result.win_probability
            recs == result.strategy_synthesis.strategic_recommendations
            summary == result.execution_summary
        IN  /\ Len(recs) >= 3
            /\ SubSeq(recs, 1, 3) = ClaimedMessageSet(wp.overall_difficulty)
            /\ summary.overall_difficulty = wp.overall_difficulty
            /\ summary.win_probability = wp.win_probability
            /\ summary.confidence_level = wp.confidence_level

\* a returned result of low difficulty, computed from evaluation scores, with
\* the aggressive message set
C30_Witness ==
    /\ pc = "done"
    /\ result.win_probability.evaluation_scores # <<>>
    /\ result.win_probability.overall_difficulty = "low"
    /\ result.strategy_synthesis.strategic_recommendations =
           <<"aggressive: use strengths", "aggressive: fast decisions",
             "aggressive: customer relationship">>
    /\ result.execution_summary.overall_difficulty = "low"

====
